---- MODULE Spec2Model ----
(***************************************************************************)
(* Model of vex::SpMat (vexcl/spmat.hpp): construction of the distributed  *)
(* sparse matrix (setup_exchange, SpMatCSR) and SpMat::mul with its        *)
(* per-device in-order command queues, secondary transfer queues and      *)
(* events.  Reals are modelled by integers (exact arithmetic); C arrays    *)
(* are sequences read with the 0-based accessor At.  Only the CSR store    *)
(* (SpMatCSR, used on CPU devices) is modelled: the hybrid ELL store lives *)
(* in another file.                                                        *)
(***************************************************************************)
EXTENDS Integers, Sequences, FiniteSets, TLC

(* ------------------------------ bounds -------------------------------- *)
MaxDev == 2      \* at most this many devices (queues)
MaxRows == 2     \* at most this many matrix rows
MaxCols == 3     \* at most this many matrix columns
MaxNnz == 2      \* at most this many stored entries
MaxAlpha == 2    \* alpha is drawn from 1..MaxAlpha
MaxCalls == 2    \* at most this many calls of mul
YInit == 5       \* every element of y holds this before the first call
Junk == 7        \* a value that an out-of-bounds or uninitialised read may yield

VARIABLES
    queues,        \* D: queue.size()
    csr,           \* the caller's arrays: [n, m, row, col, val]
    xpart,         \* partition(m, queue): the column partition (also that of x)
    x,             \* the device vectors a call may pass as x, by identifier
    ypart,         \* partition(n, queue): the row partition (also that of y)
    A,             \* the constructed SpMat: its members that mul never writes
    rx,            \* SpMat::rx, the shared host staging buffer
    vals_to_recv,  \* exc[d].vals_to_recv (host)
    vals_to_send,  \* exc[d].vals_to_send (device buffer)
    exc_rx,        \* exc[d].rx (device ghost buffer)
    uninit,        \* the device buffers that were allocated and never written
    event1,        \* event1[d][0]
    event2,        \* event2[d][0]
    queue,         \* queue[d]: pending commands of the compute queue, in order
    squeue,        \* squeue[d]: pending commands of the secondary queue, in order
    y,             \* the output vector (all devices' parts, concatenated)
    pc,            \* host position: "new", "idle", "wait", "aborted"
    calls,         \* number of mul calls issued
    cur,           \* arguments of the call in progress / last issued
    prev,          \* arguments of the call before it
    yAtIssue,      \* content of y when the last call was issued
    issuedQuiet,   \* no command was pending when the last call was issued
    context,       \* qctx(queue[d]): the context of each queue
    cache          \* the static kernel caches, with the compilations and
                   \* launches made so far

vars == <<queues, csr, xpart, x, ypart, A, rx, vals_to_recv, vals_to_send, exc_rx,
          uninit, event1, event2, queue, squeue, y, pc, calls, cur, prev,
          yAtIssue, issuedQuiet, context, cache>>

(* ------------------------------ helpers ------------------------------- *)
At(s, i) == s[i + 1]

Range(a, b) == [k \in 1..(b - a) |-> a + k - 1]

Slice(s, b, e) == [k \in 1..(e - b) |-> s[b + k]]

Devs(D) == 0..(D - 1)

RECURSIVE SortedSeq(_)
SortedSeq(S) ==
    IF S = {} THEN <<>>
    ELSE LET mn == CHOOSE c \in S : \A c2 \in S : c <= c2
         IN  <<mn>> \o SortedSeq(S \ {mn})

RECURSIVE SumSeq(_)
SumSeq(s) == IF s = <<>> THEN 0 ELSE Head(s) + SumSeq(Tail(s))

Zeros(k) == [i \in 1..k |-> 0]

NullEvent == <<0, "none", 0>>

(* ------------------------------ inputs -------------------------------- *)
\* Boundaries whose last one need not be N.
Partitions_short(N, D) ==
    { p \in [1..(D + 1) -> 0..N] :
        /\ p[1] = 0
        /\ \A k \in 1..D : p[k] <= p[k + 1] }

\* partition(N, queue): D+1 boundaries, non-decreasing, from 0 to N.
Partitions(N, D) ==
    { p \in [1..(D + 1) -> 0..N] :
        /\ p[1] = 0
        /\ p[D + 1] = N
        /\ \A k \in 1..D : p[k] <= p[k + 1] }

\* CSR row offsets: n+1 monotonic offsets, row[0] = 0, row[n] = nnz.
RowOffsets(n, nnz) ==
    { r \in [1..(n + 1) -> 0..nnz] :
        /\ r[1] = 0
        /\ r[n + 1] = nnz
        /\ \A k \in 1..n : r[k] <= r[k + 1] }

\* The vectors x that a call may pass: two distinct device vectors of size m.
XVec(id, m) == [c \in 1..m |-> IF id = 1 THEN c ELSE 2 * c + 1]

\* x(d): the part of x held by device d.  A read past its end is undefined:
\* it yields g.
XPart(id, m, xp, d, k, g) ==
    IF k < At(xp, d + 1) - At(xp, d) THEN At(x[id], At(xp, d) + k) ELSE g

Garbage == {0, Junk}

(* --------------------------- setup_exchange --------------------------- *)
\* Indices j of the entries of rows [beg, end).
EntriesOf(row, beg, end) == Range(At(row, beg), At(row, end))

\* Ghost columns collected over all rows instead of the rows of d.
GhostCols_allrows(D, part, xp, row, col, d) ==
    IF D <= 1 THEN {}
    ELSE { At(col, j) : j \in
             { j \in 0..(Len(col) - 1) :
                 At(col, j) < At(xp, d) \/ At(col, j) >= At(xp, d + 1) } }

\* remote_cols[d]: columns of d's rows outside d's column range.
GhostCols(D, part, xp, row, col, d) ==
    IF D <= 1 THEN {}
    ELSE { At(col, j) : j \in
             { j \in 0..(Len(col) - 1) :
                 /\ \E i \in At(part, d)..(At(part, d + 1) - 1) :
                        At(row, i) <= j /\ j < At(row, i + 1)
                 /\ (At(col, j) < At(xp, d) \/ At(col, j) >= At(xp, d + 1)) } }

\* std::upper_bound in its place: the first element greater than v.
LowerBound_upper(s, from, v) ==
    LET c == { i \in from..(Len(s) - 1) : At(s, i) > v }
    IN  IF c = {} THEN Len(s) ELSE CHOOSE i \in c : \A i2 \in c : i <= i2

\* std::lower_bound(begin + from, end, v) - begin on the sorted list s.
LowerBound(s, from, v) ==
    LET c == { i \in from..(Len(s) - 1) : At(s, i) >= v }
    IN  IF c = {} THEN Len(s) ELSE CHOOSE i \in c : \A i2 \in c : i <= i2

RECURSIVE CIdx(_, _, _)
CIdx(s, xp, d) ==
    IF d = 0 THEN LowerBound(s, 0, At(xp, 0))
    ELSE LowerBound(s, CIdx(s, xp, d - 1), At(xp, d))

\* Positions counted within d's own ghost set instead of the send list.
ColsToRecv_local(send, rc) == Range(0, Cardinality(rc))

\* exc[d].cols_to_recv: positions in the send list of d's ghost columns.
ColsToRecv(send, rc) ==
    SelectSeq(Range(0, Len(send)), LAMBDA i : At(send, i) \in rc)

setup_exchange(D, part, xp, row, col) ==
    LET remote_cols == [d \in Devs(D) |-> GhostCols(D, part, xp, row, col, d)]
        send == SortedSeq(UNION { remote_cols[d] : d \in Devs(D) })
        used == Len(send) > 0
        cidx == IF used THEN [k \in 1..(D + 1) |-> CIdx(send, xp, k - 1)] ELSE <<>>
    IN  [ remote_cols  |-> remote_cols,
          send_list    |-> send,
          cols_to_recv |-> [d \in Devs(D) |->
                              IF used THEN ColsToRecv(send, remote_cols[d]) ELSE <<>>],
          rxsize       |-> Len(send),
          cidx         |-> cidx,
          cols_to_send |-> [d \in Devs(D) |->
                              IF used
                              THEN [k \in 1..(At(cidx, d + 1) - At(cidx, d)) |->
                                      At(send, At(cidx, d) + k - 1) - At(xp, d)]
                              ELSE <<>>] ]

(* ------------------------------ SpMatCSR ------------------------------ *)
EmptyBlock == [row |-> <<>>, col |-> <<>>, val |-> <<>>]

\* r2l: the k-th ghost column in set order gets index k.
R2L(rc, c) == Cardinality({ c2 \in rc : c2 < c })

\* The branch taken when beg == 0 and there are no ghost columns: the input
\* arrays are copied as they are.
SpMatCSR_fast(beg, end, row, col, val) ==
    LET n == end - beg
        nz == At(row, n)
    IN  [ n |-> n, has_loc |-> nz # 0, has_rem |-> FALSE,
          loc |-> IF nz # 0
                  THEN [row |-> Slice(row, 0, n + 1),
                        col |-> Slice(col, 0, nz),
                        val |-> Slice(val, 0, nz)]
                  ELSE EmptyBlock,
          rem |-> EmptyBlock,
          assert_ok |-> TRUE ]

\* The renumbering loop.
SpMatCSR_split(beg, end, xbeg, xend, row, col, val, rc) ==
    LET n == end - beg
        js == EntriesOf(row, beg, end)
        IsLoc(j) == At(col, j) >= xbeg /\ At(col, j) < xend
        IsRem(j) == ~IsLoc(j)
        ljs == SelectSeq(js, IsLoc)
        rjs == SelectSeq(js, IsRem)
        Upto(k, T(_)) == Len(SelectSeq(EntriesOf(row, beg, beg + k), T))
        lrow == [k \in 1..(n + 1) |-> Upto(k - 1, IsLoc)]
        rrow == (IF rc # {} THEN <<0>> ELSE <<>>)
                    \o [k \in 1..n |-> Upto(k, IsRem)]
        lcol == [k \in 1..Len(ljs) |-> At(col, ljs[k]) - xbeg]
        lval == [k \in 1..Len(ljs) |-> At(val, ljs[k])]
        rcol == [k \in 1..Len(rjs) |->
                    IF At(col, rjs[k]) \in rc THEN R2L(rc, At(col, rjs[k])) ELSE 0]
        rval == [k \in 1..Len(rjs) |-> At(val, rjs[k])]
    IN  [ n |-> n, has_loc |-> lrow[n + 1] # 0, has_rem |-> rc # {},
          loc |-> IF lrow[n + 1] # 0
                  THEN [row |-> lrow, col |-> lcol, val |-> lval]
                  ELSE EmptyBlock,
          rem |-> IF rc # {}
                  THEN [row |-> rrow, col |-> rcol, val |-> rval]
                  ELSE EmptyBlock,
          assert_ok |-> \A k \in 1..Len(rjs) : At(col, rjs[k]) \in rc ]

SpMatCSR(beg, end, xbeg, xend, row, col, val, rc) ==
    IF beg = 0 /\ rc = {}
    THEN SpMatCSR_fast(beg, end, row, col, val)
    ELSE SpMatCSR_split(beg, end, xbeg, xend, row, col, val, rc)

NoStore == [ n |-> 0, has_loc |-> FALSE, has_rem |-> FALSE,
             loc |-> EmptyBlock, rem |-> EmptyBlock, assert_ok |-> TRUE ]

(* ------------------------------- SpMat -------------------------------- *)
\* SpMat::SpMat: the members of the constructed object.
SpMat(D, n, m, part, xp, row, col, val) ==
    LET ex == setup_exchange(D, part, xp, row, col)
    IN  [ part    |-> part,
          nrows   |-> n,
          ncols   |-> m,
          nnz     |-> At(row, n),
          has_mtx |-> [d \in Devs(D) |-> At(part, d + 1) > At(part, d)],
          mtx     |-> [d \in Devs(D) |->
                         IF At(part, d + 1) > At(part, d)
                         THEN SpMatCSR(At(part, d), At(part, d + 1),
                                       At(xp, d), At(xp, d + 1),
                                       row, col, val, ex.remote_cols[d])
                         ELSE NoStore],
          remote_cols  |-> ex.remote_cols,
          send_list    |-> ex.send_list,
          cols_to_recv |-> ex.cols_to_recv,
          cols_to_send |-> ex.cols_to_send,
          cidx    |-> ex.cidx,
          rxsize  |-> ex.rxsize ]

NoSpMat == [ part |-> <<>> ]

\* The matrix values: entry j holds j + 1, so that no two entries agree.
ValuesOf(k) == [j \in 1..k |-> j]

(* -------------------------------- Init -------------------------------- *)
\* The column indices of a well-formed input, and those of an input that may
\* also hold the index n_cols.
ValidCols(m) == 0..(m - 1)

BadCols(m) == 0..m

\* The kernels built at run time and kept in a static kernel_cache each.
KernelKinds == {"gather_vals_to_send", "spmv_set", "spmv_add"}

InitWith(malformed) ==
    /\ \E D \in 1..MaxDev, n \in 0..MaxRows, m \in 0..MaxCols, k \in 0..MaxNnz :
         \E r \in RowOffsets(n, k), c \in [1..k -> IF malformed THEN BadCols(m) ELSE ValidCols(m)],
            v \in {ValuesOf(k)} :
           /\ queues = D
           /\ csr = [n |-> n, m |-> m, row |-> r, col |-> c, val |-> v]
           /\ xpart \in Partitions(m, D)
           /\ x = [id \in 1..2 |-> XVec(id, m)]
           /\ ypart \in Partitions(n, D)
           /\ y = [i \in 1..n |-> YInit]
           /\ yAtIssue = [i \in 1..n |-> YInit]
           /\ rx = <<>>
           /\ vals_to_recv = [d \in Devs(D) |-> <<>>]
           /\ vals_to_send = [d \in Devs(D) |-> <<>>]
           /\ exc_rx = [d \in Devs(D) |-> <<>>]
           /\ uninit = {}
           /\ event1 = [d \in Devs(D) |-> NullEvent]
           /\ event2 = [d \in Devs(D) |-> NullEvent]
           /\ queue = [d \in Devs(D) |-> <<>>]
           /\ squeue = [d \in Devs(D) |-> <<>>]
    /\ A = NoSpMat
    /\ pc = "new"
    /\ calls = 0
    /\ cur = [x |-> 1, alpha |-> 1, append |-> FALSE]
    /\ prev = [x |-> 1, alpha |-> 1, append |-> FALSE]
    /\ issuedQuiet = TRUE

\* The static caches before any kernel was built: no entry, no compilation,
\* no launch.
EmptyCache ==
    [ entries  |-> [ kind \in KernelKinds |-> <<>> ],
      compiles |-> [ kind \in KernelKinds |-> [ c \in Devs(MaxDev) |-> 0 ] ],
      launched |-> {} ]

\* Every queue in a context of its own, and empty kernel caches.
ColdStart ==
    /\ context = [d \in Devs(queues) |-> d]
    /\ cache = EmptyCache

Init == InitWith(FALSE) /\ ColdStart

\* The constructor.  A failed assert aborts the program.
Construct ==
    /\ pc = "new"
    /\ LET S == SpMat(queues, csr.n, csr.m, ypart, xpart, csr.row, csr.col, csr.val)
           ok == \A d \in Devs(queues) : S.mtx[d].assert_ok
       IN  /\ A' = S
           /\ pc' = IF ok THEN "idle" ELSE "aborted"
           /\ rx' = Zeros(S.rxsize)
           /\ vals_to_recv' = [d \in Devs(queues) |-> Zeros(Len(S.cols_to_recv[d]))]
           /\ vals_to_send' = [d \in Devs(queues) |-> Zeros(Len(S.cols_to_send[d]))]
           /\ exc_rx' = [d \in Devs(queues) |-> Zeros(Len(S.cols_to_recv[d]))]
           /\ uninit' = { <<"vals_to_send", d>> : d \in { d \in Devs(queues) : Len(S.cols_to_send[d]) > 0 } }
                        \cup { <<"rx", d>> : d \in { d \in Devs(queues) : Len(S.cols_to_recv[d]) > 0 } }
    /\ UNCHANGED <<queues, csr, xpart, x, ypart, event1, event2, queue, squeue, y,
                   calls, cur, prev, yAtIssue, issuedQuiet, context, cache>>

(* ------------------------- queues and events -------------------------- *)
Cmd(call, kind, d, wait, c) ==
    [ id |-> <<call, kind, d>>, kind |-> kind, wait |-> wait,
      x |-> c.x, alpha |-> c.alpha ]

PendingIds ==
    UNION { { queue[d][k].id : k \in 1..Len(queue[d]) } \cup
            { squeue[d][k].id : k \in 1..Len(squeue[d]) } : d \in Devs(queues) }

\* A command's event is complete once the command has left its queue.
Complete(e) == e \notin PendingIds

\* An in-order queue runs its first command once that command's wait list is
\* complete.
Runnable(q) == Len(q) > 0 /\ \A e \in Head(q).wait : Complete(e)

Idle == \A d \in Devs(queues) : queue[d] = <<>> /\ squeue[d] = <<>>

SendCount(S, d) == IF S.rxsize > 0 THEN At(S.cidx, d + 1) - At(S.cidx, d) ELSE 0

(* ------------------------------ kernels ------------------------------- *)
\* A kernel that assigns y[i] = alpha * sum whether it is spmv_set or spmv_add.
spmv_overwrite(blk, n, ys, alpha, add, xs) ==
    [ i \in 1..n |->
        alpha * SumSeq([ k \in 1..(blk.row[i + 1] - blk.row[i]) |->
                           blk.val[blk.row[i] + k] * xs[blk.col[blk.row[i] + k]] ]) ]

\* spmv_set / spmv_add on one block: y[i] (+)= alpha * sum val[j] * x[col[j]];
\* xs maps each column index of the block to the value read there.
spmv(blk, n, ys, alpha, add, xs) ==
    [ i \in 1..n |->
        (IF add THEN ys[i] ELSE 0)
        + alpha * SumSeq([ k \in 1..(blk.row[i + 1] - blk.row[i]) |->
                             blk.val[blk.row[i] + k] * xs[blk.col[blk.row[i] + k]] ]) ]

\* A kernel that is handed y instead of y(d): it writes from the start of y.
WithPart_unsliced(yy, part, d, ys) ==
    [ i \in 1..Len(yy) |-> IF i <= Len(ys) THEN ys[i] ELSE yy[i] ]

\* y with device d's part replaced by ys.
WithPart(yy, part, d, ys) ==
    [ i \in 1..Len(yy) |->
        IF At(part, d) < i /\ i <= At(part, d + 1) THEN ys[i - At(part, d)] ELSE yy[i] ]

YPart(yy, part, d) == Slice(yy, At(part, d), At(part, d + 1))

\* Element k of a device buffer; a read past its end, or of a buffer that was
\* never written, is undefined and yields g.
BufAt(buf, fresh, k, g) == IF k < Len(buf) /\ ~fresh THEN At(buf, k) ELSE g

\* The effect on y of a command of queue[d]: spmv_set or spmv_add on the
\* local block reading x(d), the zero fill, or spmv_add on the remote block
\* reading the ghost buffer gbuf.
ApplyCmd(S, xp, m, d, kind, alpha, xid, yy, gbuf, gfresh, g) ==
    LET M == S.mtx[d]
        cols(blk) == { blk.col[k] : k \in 1..Len(blk.col) }
        xs == [ k \in cols(M.loc) |-> XPart(xid, m, xp, d, k, g) ]
        ghost == [ k \in cols(M.rem) |-> BufAt(gbuf, gfresh, k, g) ]
        ys == YPart(yy, S.part, d)
    IN  CASE kind = "spmv_set" ->
               WithPart(yy, S.part, d, spmv(M.loc, M.n, ys, alpha, FALSE, xs))
          [] kind = "spmv_add" ->
               WithPart(yy, S.part, d, spmv(M.loc, M.n, ys, alpha, TRUE, xs))
          [] kind = "zero" ->
               WithPart(yy, S.part, d, Zeros(Len(ys)))
          [] kind = "remote" ->
               WithPart(yy, S.part, d, spmv(M.rem, M.n, ys, alpha, TRUE, ghost))
          [] OTHER -> yy

\* gather_vals_to_send: vals_to_send[i] = vals[cols_to_send[i]].
GatherVals(S, xp, m, d, xid, g) ==
    [ i \in 1..SendCount(S, d) |-> XPart(xid, m, xp, d, S.cols_to_send[d][i], g) ]

\* A gather kernel that assigns in the other direction:
\* vals[cols_to_send[i]] = vals_to_send[i].
XAfterGather_swapped(S, xp, d, xv, vts) ==
    [ c \in 1..Len(xv) |->
        LET hit == { i \in 1..SendCount(S, d) :
                       At(xp, d) + S.cols_to_send[d][i] + 1 = c /\ i <= Len(vts) }
        IN  IF hit = {} THEN xv[c] ELSE vts[CHOOSE i \in hit : TRUE] ]

\* The vector x after gather_vals_to_send ran on device d: vals is a pointer
\* to const and the kernel assigns vals_to_send[i] only.
XAfterGather(S, xp, d, xv, vts) == xv

\* A read-back to the start of rx instead of &rx[cidx[d]].
ReadBack_base(S, d, rxv, vts, fresh, g) ==
    [ i \in 1..Len(rxv) |->
        IF i <= SendCount(S, d) THEN BufAt(vts, fresh, i - 1, g) ELSE rxv[i] ]

\* enqueueReadBuffer(exc[d].vals_to_send, ..., &rx[cidx[d]]): rx afterwards.
ReadBack(S, d, rxv, vts, fresh, g) ==
    [ i \in 1..Len(rxv) |->
        IF At(S.cidx, d) < i /\ i <= At(S.cidx, d + 1)
        THEN BufAt(vts, fresh, i - At(S.cidx, d) - 1, g)
        ELSE rxv[i] ]

\* A redistribution that copies the first slots of rx.
Redistribute_direct(S, d, rxv) ==
    [ i \in 1..Len(S.cols_to_recv[d]) |-> At(rxv, i - 1) ]

\* vals_to_recv[i] = rx[cols_to_recv[i]].
Redistribute(S, d, rxv) ==
    [ i \in 1..Len(S.cols_to_recv[d]) |-> At(rxv, S.cols_to_recv[d][i]) ]

(* -------------------------------- mul --------------------------------- *)
\* mul_local that ignores append.
mul_local_set(S, d, call, c) ==
    IF ~S.has_mtx[d] THEN <<>>
    ELSE IF S.mtx[d].has_loc THEN <<Cmd(call, "spmv_set", d, {}, c)>>
         ELSE <<Cmd(call, "zero", d, {}, c)>>

\* mul_local that leaves y alone when the local block is empty.
mul_local_nozero(S, d, call, c) ==
    IF ~S.has_mtx[d] \/ ~S.mtx[d].has_loc THEN <<>>
    ELSE IF c.append THEN <<Cmd(call, "spmv_add", d, {}, c)>>
                     ELSE <<Cmd(call, "spmv_set", d, {}, c)>>

\* mul_local whose kernel waits for the remote kernel of the call, which is
\* queued behind it.
mul_local_afterremote(S, d, call, c) ==
    IF ~S.has_mtx[d] THEN <<>>
    ELSE IF S.mtx[d].has_loc
         THEN IF c.append THEN <<Cmd(call, "spmv_add", d, {<<call, "remote", d>>}, c)>>
                          ELSE <<Cmd(call, "spmv_set", d, {<<call, "remote", d>>}, c)>>
         ELSE IF ~c.append THEN <<Cmd(call, "zero", d, {}, c)>> ELSE <<>>

\* mul_local whose kernel waits for the read-back of the call.
mul_local_waits(S, d, call, c) ==
    IF ~S.has_mtx[d] THEN <<>>
    ELSE IF S.mtx[d].has_loc
         THEN IF c.append THEN <<Cmd(call, "spmv_add", d, {<<call, "read", d>>}, c)>>
                          ELSE <<Cmd(call, "spmv_set", d, {<<call, "read", d>>}, c)>>
         ELSE IF ~c.append THEN <<Cmd(call, "zero", d, {}, c)>> ELSE <<>>

\* The command mul_local enqueues on queue[d], if any.
mul_local(S, d, call, c) ==
    IF ~S.has_mtx[d] THEN <<>>
    ELSE IF S.mtx[d].has_loc
         THEN IF c.append THEN <<Cmd(call, "spmv_add", d, {}, c)>>
                          ELSE <<Cmd(call, "spmv_set", d, {}, c)>>
         ELSE IF ~c.append THEN <<Cmd(call, "zero", d, {}, c)>> ELSE <<>>

\* mul_remote that passes no wait list to the kernel.
mul_remote_nowait(S, d, call, c, ev) ==
    IF ~S.mtx[d].has_rem THEN <<>>
    ELSE <<Cmd(call, "remote", d, {}, c)>>

\* The command mul_remote enqueues on queue[d], if any: it waits for ev.
mul_remote(S, d, call, c, ev) ==
    IF ~S.mtx[d].has_rem THEN <<>>
    ELSE <<Cmd(call, "remote", d, ev, c)>>

\* A test of the send count that leaves out the test of rx.size().
Sends_unguarded(S, d) == SendCount(S, d) >= 0

\* The columns device d sends, if any (line 361).
Sends(S, d) == S.rxsize > 0 /\ SendCount(S, d) > 0

\* A test of the exchange as a whole instead of the device's own ghost list.
Recvs_any(S, d) == S.rxsize > 0

\* Device d receives ghost values (line 392).
Recvs(S, d) == Len(S.cols_to_recv[d]) > 0

(* --------------------------- kernel caches ----------------------------- *)
\* The kernel a command of queue[d] launches.
KernelOf(kind) ==
    IF kind = "gather" THEN "gather_vals_to_send"
    ELSE IF kind = "spmv_set" THEN "spmv_set"
    ELSE "spmv_add"

\* A lookup that builds the program whether or not the context has an entry;
\* insert() keeps the entry of a key that is present.
Find_always(kc, kind, c) ==
    [ kc EXCEPT !.entries[kind] =
                    IF c \in DOMAIN @ THEN @ ELSE @ @@ (c :> kc.compiles[kind][c] + 1),
                !.compiles[kind][c] = @ + 1 ]

\* cache.find(context()): on a miss the program is built and its kernel
\* inserted under the context.  An entry is the ordinal of the build that
\* made it; 0 is an entry made before this matrix was used.
Find(kc, kind, c) ==
    IF c \in DOMAIN kc.entries[kind] THEN kc
    ELSE [ kc EXCEPT !.entries[kind] = @ @@ (c :> kc.compiles[kind][c] + 1),
                     !.compiles[kind][c] = @ + 1 ]

\* enqueueNDRangeKernel of the kernel the iterator points to.
Launched(kc, kind, c) ==
    [ kc EXCEPT !.launched = @ \cup {<<kind, c, kc.entries[kind][c]>>} ]

\* Lines 329-377 for devices 0..d: every device looks the gather kernel up,
\* a device with columns to send launches it.
RECURSIVE GatherKernels(_, _, _)
GatherKernels(kc, S, d) ==
    LET before == IF d = 0 THEN kc ELSE GatherKernels(kc, S, d - 1)
        found == Find(before, "gather_vals_to_send", context[d])
    IN  IF Sends(S, d) THEN Launched(found, "gather_vals_to_send", context[d])
        ELSE found

\* spmv_set and spmv_add look their kernel up and launch it, once for each
\* product command of cmds on device d.
RECURSIVE KernelsOf(_, _, _)
KernelsOf(kc, cmds, d) ==
    IF cmds = <<>> THEN kc
    ELSE LET kind == Head(cmds).kind
             krn == KernelOf(kind)
         IN  KernelsOf(IF kind \in {"spmv_set", "spmv_add", "remote"}
                       THEN Launched(Find(kc, krn, context[d]), krn, context[d])
                       ELSE kc,
                       Tail(cmds), d)

\* Lines 381-382 for devices 0..d.
RECURSIVE LocalKernels(_, _, _, _, _)
LocalKernels(kc, S, d, call, c) ==
    KernelsOf(IF d = 0 THEN kc ELSE LocalKernels(kc, S, d - 1, call, c),
              mul_local(S, d, call, c), d)

\* Lines 391-403 for devices 0..d.
RECURSIVE RemoteKernels(_, _, _, _, _)
RemoteKernels(kc, S, d, call, c) ==
    KernelsOf(IF d = 0 THEN kc ELSE RemoteKernels(kc, S, d - 1, call, c),
              IF Recvs(S, d) THEN mul_remote(S, d, call, c, {<<call, "write", d>>})
              ELSE <<>>,
              d)

\* Lines 327-382: gather and read-back of the values to send, then the local
\* products.  Without exchange data the call ends here.
MulIssue ==
    /\ pc = "idle"
    /\ calls < MaxCalls
    /\ \E xid \in 1..(IF calls = 0 THEN 1 ELSE 2), alpha \in 1..MaxAlpha,
          append \in BOOLEAN :
         /\ calls > 0 => alpha = cur.alpha
         /\ LET c == [x |-> xid, alpha |-> alpha, append |-> append]
                 call == calls + 1
                 sends(d) == Sends(A, d)
             IN  /\ cur' = c
                 /\ prev' = cur
                 /\ calls' = call
                 /\ yAtIssue' = y
                 /\ issuedQuiet' = Idle
                 /\ event1' = [d \in Devs(queues) |->
                                 IF sends(d) THEN <<call, "gather", d>> ELSE event1[d]]
                 /\ event2' = [d \in Devs(queues) |->
                                 IF sends(d) THEN <<call, "read", d>> ELSE event2[d]]
                 /\ queue' = [d \in Devs(queues) |->
                                queue[d]
                                \o (IF sends(d) THEN <<Cmd(call, "gather", d, {}, c)>> ELSE <<>>)
                                \o mul_local(A, d, call, c)]
                 /\ squeue' = [d \in Devs(queues) |->
                                 squeue[d]
                                 \o (IF sends(d)
                                     THEN <<Cmd(call, "read", d, {<<call, "gather", d>>}, c)>>
                                     ELSE <<>>)]
                 /\ cache' = LocalKernels(IF A.rxsize > 0
                                          THEN GatherKernels(cache, A, queues - 1)
                                          ELSE cache,
                                          A, queues - 1, call, c)
                 /\ pc' = IF A.rxsize > 0 THEN "wait" ELSE "idle"
    /\ UNCHANGED <<queues, csr, xpart, x, ypart, A, rx, vals_to_recv, vals_to_send,
                   exc_rx, uninit, y, context>>

\* A wait for the gather kernels instead of the read-backs.
HostWaitDone_gather ==
    \A d \in Devs(queues) : Sends(A, d) => Complete(event1[d])

\* Line 387: the host blocks until the read-back of every sending device is
\* complete.
HostWaitDone ==
    \A d \in Devs(queues) : Sends(A, d) => Complete(event2[d])

\* Lines 385-404: wait, redistribute rx into vals_to_recv, upload, remote
\* products.
MulFinish ==
    /\ pc = "wait"
    /\ HostWaitDone
    /\ LET recvs(d) == Recvs(A, d)
       IN  /\ vals_to_recv' = [d \in Devs(queues) |->
                                 IF recvs(d) THEN Redistribute(A, d, rx)
                                 ELSE vals_to_recv[d]]
           /\ event2' = [d \in Devs(queues) |->
                           IF recvs(d) THEN <<calls, "write", d>> ELSE event2[d]]
           /\ squeue' = [d \in Devs(queues) |->
                           squeue[d]
                           \o (IF recvs(d) THEN <<Cmd(calls, "write", d, {}, cur)>> ELSE <<>>)]
           /\ queue' = [d \in Devs(queues) |->
                          queue[d]
                          \o (IF recvs(d)
                              THEN mul_remote(A, d, calls, cur, {<<calls, "write", d>>})
                              ELSE <<>>)]
    /\ cache' = RemoteKernels(cache, A, queues - 1, calls, cur)
    /\ pc' = "idle"
    /\ UNCHANGED <<queues, csr, xpart, x, ypart, A, rx, vals_to_send, exc_rx, uninit,
                   event1, y, calls, cur, prev, yAtIssue, issuedQuiet, context>>

(* ------------------------- command execution --------------------------- *)
\* The first command of queue[d] runs: a gather, a local product, a zero
\* fill or a remote product.
ExecQueue(d) ==
    /\ Runnable(queue[d])
    /\ LET op == Head(queue[d])
       IN  \E g \in Garbage :
             /\ vals_to_send' =
                  IF op.kind = "gather"
                  THEN [vals_to_send EXCEPT ![d] = GatherVals(A, xpart, csr.m, d, op.x, g)]
                  ELSE vals_to_send
             /\ x' = IF op.kind = "gather"
                     THEN [x EXCEPT ![op.x] =
                             XAfterGather(A, xpart, d, x[op.x], vals_to_send[d])]
                     ELSE x
             /\ y' = ApplyCmd(A, xpart, csr.m, d, op.kind, op.alpha, op.x, y,
                              exc_rx[d], <<"rx", d>> \in uninit, g)
    /\ uninit' = IF Head(queue[d]).kind = "gather"
                 THEN uninit \ {<<"vals_to_send", d>>} ELSE uninit
    /\ queue' = [queue EXCEPT ![d] = Tail(queue[d])]
    /\ UNCHANGED <<queues, csr, xpart, ypart, A, rx, vals_to_recv, exc_rx, event1,
                   event2, squeue, pc, calls, cur, prev, yAtIssue, issuedQuiet,
                   context, cache>>

\* The first command of squeue[d] runs: a read-back into rx or an upload of
\* vals_to_recv.
ExecSQueue(d) ==
    /\ Runnable(squeue[d])
    /\ LET op == Head(squeue[d])
       IN  /\ \E g \in Garbage :
                rx' = IF op.kind = "read"
                      THEN ReadBack(A, d, rx, vals_to_send[d],
                                    <<"vals_to_send", d>> \in uninit, g)
                      ELSE rx
           /\ exc_rx' = IF op.kind = "write"
                        THEN [exc_rx EXCEPT ![d] = vals_to_recv[d]]
                        ELSE exc_rx
    /\ uninit' = IF Head(squeue[d]).kind = "write"
                 THEN uninit \ {<<"rx", d>>} ELSE uninit
    /\ squeue' = [squeue EXCEPT ![d] = Tail(squeue[d])]
    /\ UNCHANGED <<queues, csr, xpart, x, ypart, A, vals_to_recv, vals_to_send, event1,
                   event2, queue, y, pc, calls, cur, prev, yAtIssue, issuedQuiet,
                   context, cache>>

Next ==
    \/ Construct
    \/ MulIssue
    \/ MulFinish
    \/ \E d \in Devs(queues) : ExecQueue(d)
    \/ \E d \in Devs(queues) : ExecSQueue(d)

Spec == Init /\ [][Next]_vars

(* ---------------------------- reference ------------------------------- *)
Quiescent == pc = "idle" /\ calls >= 1 /\ Idle

\* Entry (i, c) of the matrix as a dense array: the sum of the stored values
\* at that place.
DenseEntry(i, c) ==
    SumSeq([ k \in 1..(At(csr.row, i + 1) - At(csr.row, i)) |->
               IF At(csr.col, At(csr.row, i) + k - 1) = c
               THEN At(csr.val, At(csr.row, i) + k - 1) ELSE 0 ])

\* The dense product A * x.
DenseProduct(xid) ==
    [ i \in 1..csr.n |->
        SumSeq([ c \in 1..csr.m |-> DenseEntry(i - 1, c - 1) * XVec(xid, csr.m)[c] ]) ]

Scaled(alpha, v) == [ i \in 1..Len(v) |-> alpha * v[i] ]

Plus(u, v) == [ i \in 1..Len(u) |-> u[i] + v[i] ]

\* A device d >= 1 whose rows start at 0 and whose store was built by the
\* beg == 0 branch although its column range does not start at 0.
UnshiftedStore(d) ==
    /\ A.has_mtx[d]
    /\ At(A.part, d) = 0
    /\ A.remote_cols[d] = {}
    /\ At(xpart, d) > 0
    /\ A.mtx[d].has_loc

\* One call of mul run to completion with nothing else in flight: rx after
\* the read-backs of devices 0..d.
RECURSIVE RxAfter(_, _, _, _, _, _)
RxAfter(S, xp, m, d, xid, g) ==
    LET before == IF d = 0 THEN Zeros(S.rxsize) ELSE RxAfter(S, xp, m, d - 1, xid, g)
    IN  IF Sends(S, d)
        THEN ReadBack(S, d, before, GatherVals(S, xp, m, d, xid, g), FALSE, g)
        ELSE before

RECURSIVE ApplyCmds(_, _, _, _, _, _, _, _)
ApplyCmds(S, xp, m, d, cmds, yy, gbuf, g) ==
    IF cmds = <<>> THEN yy
    ELSE ApplyCmds(S, xp, m, d, Tail(cmds),
                   ApplyCmd(S, xp, m, d, Head(cmds).kind, Head(cmds).alpha,
                            Head(cmds).x, yy, gbuf, FALSE, g),
                   gbuf, g)

\* y after such a call on devices 0..d, from the content yy.
RECURSIVE MulAlone(_, _, _, _, _, _, _, _)
MulAlone(S, xp, m, D, d, yy, c, g) ==
    LET before == IF d = 0 THEN yy ELSE MulAlone(S, xp, m, D, d - 1, yy, c, g)
        gbuf == IF S.rxsize > 0 /\ Recvs(S, d)
                THEN Redistribute(S, d, RxAfter(S, xp, m, D - 1, c.x, g))
                ELSE <<>>
        cmds == mul_local(S, d, 1, c)
                \o (IF S.rxsize > 0 /\ Recvs(S, d)
                    THEN mul_remote(S, d, 1, c, {}) ELSE <<>>)
    IN  ApplyCmds(S, xp, m, d, cmds, before, gbuf, g)

\* The same matrix constructed on a single device.
OneDevice == SpMat(1, csr.n, csr.m, <<0, csr.n>>, <<0, csr.m>>, csr.row, csr.col, csr.val)

(* ------------------------------- claims ------------------------------- *)
\* C1: once a call with append = false has run to completion, y equals
\* alpha * A * x as computed by the dense reference product.
C1_MulMatchesDense ==
    Quiescent /\ ~cur.append => y = Scaled(cur.alpha, DenseProduct(cur.x))

C3_SecondCallSame ==
    /\ Quiescent /\ calls = 2 /\ issuedQuiet
    /\ ~cur.append /\ ~prev.append /\ cur.x = prev.x /\ cur.alpha = prev.alpha
    => y = yAtIssue

\* C4: the result of a call on D devices equals the result of the same call
\* on the matrix built on a single device.
C4_SameAsOneDevice ==
    Quiescent /\ issuedQuiet =>
        y = MulAlone(OneDevice, <<0, csr.m>>, csr.m, 1, 0, yAtIssue, cur, 0)

LocalKinds == {"spmv_set", "spmv_add", "zero"}

RemoteStarts(d) ==
    /\ Len(queue[d]) > 0
    /\ Head(queue[d]).kind = "remote"
    /\ queue'[d] = Tail(queue[d])

\* C5: when the remote kernel of a call starts on device d, the local
\* command of that call on d and the upload of that call into d's ghost
\* buffer are complete, and the upload's event is in the kernel's wait list.
C5_RemoteAfterLocalAndUpload ==
    [][ \A d \in Devs(queues) :
          RemoteStarts(d) =>
            LET op == Head(queue[d])
                k == op.id[1]
            IN  /\ \A kind \in LocalKinds : <<k, kind, d>> \notin PendingIds
                /\ <<k, "write", d>> \notin PendingIds
                /\ op.wait = {<<k, "write", d>>} ]_vars

\* The host has returned from the second call while a remote kernel is held
\* back only by its upload; the first call's remote kernel has run.
C5_Witness ==
    \E d \in Devs(queues) :
        /\ pc = "idle" /\ calls = 2
        /\ Len(queue[d]) > 0
        /\ Head(queue[d]).id = <<2, "remote", d>>
        /\ <<2, "write", d>> \in PendingIds
        /\ <<"rx", d>> \notin uninit

\* C6: when the host redistributes rx, every slot it reads lies in the send
\* range of a device whose read-back of this call is the event the host
\* waited for and is complete, as is the read-back of every sending device.
C6_HostReadsAfterTransfer ==
    [][ (pc = "wait" /\ pc' = "idle") =>
          /\ \A d \in Devs(queues) :
               Sends(A, d) => /\ event2[d] = <<calls, "read", d>>
                              /\ <<calls, "read", d>> \notin PendingIds
          /\ \A d \in Devs(queues) : \A i \in 1..Len(A.cols_to_recv[d]) :
               LET slot == A.cols_to_recv[d][i]
               IN  /\ \E src \in Devs(queues) :
                        /\ At(A.cidx, src) <= slot /\ slot < At(A.cidx, src + 1)
                        /\ <<calls, "read", src>> \notin PendingIds
                   /\ vals_to_recv'[d][i] = At(rx, slot) ]_vars

\* The host has redistributed the values read back from two sending devices.
C6_Witness ==
    /\ pc = "idle" /\ calls = 2 /\ queues = 2
    /\ \A d \in Devs(queues) : Sends(A, d) /\ Recvs(A, d)
    /\ \E d \in Devs(queues) : <<2, "write", d>> \in PendingIds
    /\ \A d \in Devs(queues) : vals_to_recv[d] # Zeros(Len(vals_to_recv[d]))

\* C7: for a matrix without entries no gather, transfer, upload or remote
\* kernel is ever issued (only the zero fill of a call with append = false);
\* after a call with append = false y is zero, after one with append = true
\* y is what it was.
C7_EmptyMatrix ==
    (pc # "new" /\ At(csr.row, csr.n) = 0) =>
        /\ pc # "wait"
        /\ \A id \in PendingIds :
             /\ id[2] = "zero"
             /\ id[1] = calls => ~cur.append
             /\ id[1] = calls - 1 => ~prev.append
        /\ Quiescent /\ ~cur.append => y = Zeros(csr.n)
        /\ Quiescent /\ cur.append /\ issuedQuiet => y = yAtIssue

C7_Witness ==
    /\ At(csr.row, csr.n) = 0 /\ csr.n = 2 /\ csr.m > 0 /\ queues = 2
    /\ ypart = <<0, 1, 2>>
    /\ Quiescent /\ calls = 2 /\ prev.append /\ ~cur.append
    /\ y = Zeros(2)

(* The two blocks of device d's store, read back. *)
BlockRow(blk, present, r) ==
    IF present
    THEN [ k \in 1..(blk.row[r + 2] - blk.row[r + 1]) |->
             <<blk.col[blk.row[r + 1] + k], blk.val[blk.row[r + 1] + k]>> ]
    ELSE <<>>

OrigRow(i) ==
    [ k \in 1..(At(csr.row, i + 1) - At(csr.row, i)) |->
        <<At(csr.col, At(csr.row, i) + k - 1), At(csr.val, At(csr.row, i) + k - 1)>> ]

Count(sq, e) == Cardinality({ k \in 1..Len(sq) : sq[k] = e })

InRange(d, c) == At(xpart, d) <= c /\ c < At(xpart, d + 1)

\* Local entries of row r of device d with their columns mapped back by +xbeg,
\* remote entries with theirs mapped back through the ghost set.
LocBack(d, r) ==
    LET e == BlockRow(A.mtx[d].loc, A.mtx[d].has_loc, r)
    IN  [ k \in 1..Len(e) |-> <<e[k][1] + At(xpart, d), e[k][2]>> ]

RemBack(d, r) ==
    LET e == BlockRow(A.mtx[d].rem, A.mtx[d].has_rem, r)
        ghosts == SortedSeq(A.remote_cols[d])
    IN  [ k \in 1..Len(e) |-> <<At(ghosts, e[k][1]), e[k][2]>> ]

\* C8: every entry of a row owned by device d is in exactly one of d's two
\* blocks, in the local one iff its column is in d's column range, and the
\* blocks mapped back give the row's columns and values.
C8_SplitIsPartition ==
    pc = "idle" =>
      \A d \in Devs(queues) : A.has_mtx[d] =>
        \A r \in 0..(A.mtx[d].n - 1) :
          LET orig == OrigRow(At(A.part, d) + r)
              lb == LocBack(d, r)
              rb == RemBack(d, r)
          IN  /\ Len(lb) + Len(rb) = Len(orig)
              /\ \A k \in 1..Len(lb) : InRange(d, lb[k][1])
              /\ \A k \in 1..Len(rb) : ~InRange(d, rb[k][1])
              /\ \A k \in 1..Len(orig) :
                   Count(orig, orig[k]) = Count(lb, orig[k]) + Count(rb, orig[k])

\* C9: every column index stored in device d's local block is the original
\* column minus xbeg and lies in [0, xend - xbeg).
C9_LocalColsShifted ==
    pc = "idle" =>
      \A d \in Devs(queues) : (A.has_mtx[d] /\ A.mtx[d].has_loc) =>
        LET js == SelectSeq(EntriesOf(csr.row, At(A.part, d), At(A.part, d + 1)),
                            LAMBDA j : InRange(d, At(csr.col, j)))
            stored == A.mtx[d].loc.col
        IN  /\ stored = [ k \in 1..Len(js) |-> At(csr.col, js[k]) - At(xpart, d) ]
            /\ \A k \in 1..Len(stored) :
                 0 <= stored[k] /\ stored[k] < At(xpart, d + 1) - At(xpart, d)

\* C10: construction from arrays with a column index outside [0, n_cols)
\* never completes: the assertion of the renumbering loop stops it.
C10_BadColumnAborts ==
    (\E j \in 1..Len(csr.col) : csr.col[j] \notin 0..(csr.m - 1)) =>
        pc \in {"new", "aborted"}

\* Inputs with at least one column index equal to n_cols.
InitMalformed ==
    /\ InitWith(TRUE)
    /\ ColdStart
    /\ \E j \in 1..Len(csr.col) : csr.col[j] = csr.m

SpecMalformed == InitMalformed /\ [][Next]_vars

\* C11: with one device the constructor leaves the ghost set, rx, cidx and
\* cols_to_recv empty, and a call of mul issues no gather, no transfer, no
\* upload and no remote kernel and never waits: it enqueues what mul_local
\* enqueues on queue[0] and nothing else.
C11_SingleDevice ==
    [][ (queues = 1 /\ pc' # "new") =>
          /\ A'.remote_cols[0] = {}
          /\ A'.rxsize = 0 /\ rx' = <<>>
          /\ A'.cidx = <<>>
          /\ A'.cols_to_recv[0] = <<>>
          /\ pc' # "wait"
          /\ squeue'[0] = <<>>
          /\ event1'[0] = NullEvent /\ event2'[0] = NullEvent
          /\ \A k \in 1..Len(queue'[0]) :
                queue'[0][k].kind \in LocalKinds /\ queue'[0][k].wait = {}
          /\ calls' # calls =>
                queue'[0] = queue[0] \o mul_local(A, 0, calls', cur') ]_vars

\* Two calls on one device have returned while both local products are still
\* queued.
C11_Witness ==
    /\ queues = 1 /\ pc = "idle" /\ calls = 2
    /\ Len(queue[0]) = 2
    /\ A.nnz > 0

\* C12: after construction no step of mul or of a command it issued changes
\* the partitions, cidx, cols_to_recv, cols_to_send, the stores' blocks, the
\* values of rows(), cols() and nonzeros(), or the vector x.
C12_MulLeavesMatrix ==
    [][ pc # "new" =>
          /\ A' = A
          /\ A'.part = ypart /\ xpart' = xpart /\ ypart' = ypart
          /\ A'.nrows = csr.n /\ A'.ncols = csr.m /\ A'.nnz = At(csr.row, csr.n)
          /\ csr' = csr /\ queues' = queues
          /\ x' = x ]_vars

\* Two calls with exchange between two devices have run to completion.
C12_Witness ==
    /\ Quiescent /\ calls = 2 /\ queues = 2
    /\ \A d \in Devs(queues) : Sends(A, d) /\ Recvs(A, d)
    /\ <<"vals_to_send", 0>> \notin uninit

YWriters == LocalKinds \cup {"remote"}

\* C13: an element of y changes only when the first command of the compute
\* queue of the device owning that element runs, that command being a local
\* product, a zero fill or a remote product; no command of a secondary queue
\* and no command of another device's queue runs in that step.
C13_OnlyOwnerWritesY ==
    [][ \A i \in 1..Len(y) : y'[i] # y[i] =>
          \E d \in Devs(queues) :
            /\ At(ypart, d) < i /\ i <= At(ypart, d + 1)
            /\ Len(queue[d]) > 0
            /\ Head(queue[d]).kind \in YWriters
            /\ queue'[d] = Tail(queue[d])
            /\ squeue' = squeue
            /\ \A e \in Devs(queues) \ {d} : queue'[e] = queue[e] ]_vars

\* Writers of both devices are ready to run at once, each on its own part.
C13_Witness ==
    /\ queues = 2 /\ ypart = <<0, 1, 2>>
    /\ \A d \in Devs(queues) :
         Runnable(queue[d]) /\ Head(queue[d]).kind \in YWriters
    /\ \E d \in Devs(queues) : Head(queue[d]).kind = "remote"
    /\ \E i \in 1..Len(y) : y[i] # YInit

\* p splits 0..N-1 into D contiguous ranges: every index lies in exactly one.
SplitsRange(p, N, D) ==
    /\ Len(p) = D + 1
    /\ At(p, 0) = 0 /\ At(p, D) = N
    /\ \A d \in Devs(D) : At(p, d) <= At(p, d + 1)
    /\ \A i \in 0..(N - 1) :
         Cardinality({ d \in Devs(D) : At(p, d) <= i /\ i < At(p, d + 1) }) = 1

\* C14: the row partition and the column partition each have D+1
\* non-decreasing boundaries from 0 to the range size, so that the D ranges
\* are contiguous, disjoint and cover the range; the constructed matrix keeps
\* the row partition.
C14_PartitionsCover ==
    /\ SplitsRange(ypart, csr.n, queues)
    /\ SplitsRange(xpart, csr.m, queues)
    /\ pc # "new" => A.part = ypart

\* A matrix built on two devices of which the second owns no row and the
\* first no column.
C14_Witness ==
    /\ pc = "idle" /\ queues = 2 /\ csr.n = 2 /\ csr.m > 0
    /\ ypart = <<0, 2, 2>>
    /\ xpart = <<0, 0, csr.m>>
    /\ ~A.has_mtx[1]

\* C16: when the host overwrites exc[d].vals_to_recv in the redistribution
\* of a call, no upload from that array issued by an earlier call is pending.
C16_NoOverwriteDuringUpload ==
    [][ (pc = "wait" /\ pc' = "idle") =>
          \A d \in Devs(queues) : Recvs(A, d) =>
            \A k \in 1..(calls - 1) : <<k, "write", d>> \notin PendingIds ]_vars

UploadRuns(d) ==
    /\ Len(squeue[d]) > 0
    /\ Head(squeue[d]).kind = "write"
    /\ squeue'[d] = Tail(squeue[d])

\* C17: when an upload into exc[d].rx runs, no remote kernel of an earlier
\* call, which reads that buffer, is pending on queue[d].
C17_NoUploadDuringRemote ==
    [][ \A d \in Devs(queues) :
          UploadRuns(d) =>
            \A k \in 1..(Head(squeue[d]).id[1] - 1) :
                <<k, "remote", d>> \notin PendingIds ]_vars

\* The k-th smallest ghost column of device d (k from 0).
Ghost(d, k) == At(SortedSeq(A.remote_cols[d]), k)

GhostCount(d) == Cardinality(A.remote_cols[d])

\* The x of the latest call whose redistribution has run.
RedistributedX == IF pc = "wait" THEN prev.x ELSE cur.x

RemoteEntries(d) ==
    SelectSeq(EntriesOf(csr.row, At(A.part, d), At(A.part, d + 1)),
              LAMBDA j : ~InRange(d, At(csr.col, j)))

\* C19: for a device with ghost columns the store's map sends the k-th
\* smallest ghost column to k, onto 0..count-1; cols_to_recv is strictly
\* increasing, has count entries and its k-th entry is the position of that
\* column in the send list; the index stored for a remote entry leads through
\* cols_to_recv and the send list back to the entry's column.
C19_RenumberingsAgree ==
    pc = "idle" =>
      \A d \in Devs(queues) : A.remote_cols[d] # {} =>
        LET rc == A.remote_cols[d]
            ctr == A.cols_to_recv[d]
            js == RemoteEntries(d)
            stored == A.mtx[d].rem.col
        IN  /\ \A k \in 0..(GhostCount(d) - 1) : R2L(rc, Ghost(d, k)) = k
            /\ { R2L(rc, c) : c \in rc } = 0..(GhostCount(d) - 1)
            /\ Len(ctr) = GhostCount(d)
            /\ \A k \in 1..(Len(ctr) - 1) : ctr[k] < ctr[k + 1]
            /\ \A k \in 0..(GhostCount(d) - 1) :
                 At(A.send_list, At(ctr, k)) = Ghost(d, k)
            /\ Len(stored) = Len(js)
            /\ \A k \in 1..Len(js) :
                 At(A.send_list, At(ctr, stored[k])) = At(csr.col, js[k])

\* Each device has ghost columns, and those of device 0 are not at the start
\* of the send list.
C19_Witness ==
    /\ pc = "idle" /\ queues = 2
    /\ \A d \in Devs(queues) : A.remote_cols[d] # {}
    /\ A.cols_to_recv[0] = <<1>>
    /\ A.mtx[0].rem.col = <<0>>

SendListOk ==
    /\ \A k \in 1..(Len(A.send_list) - 1) : A.send_list[k] < A.send_list[k + 1]
    /\ { A.send_list[k] : k \in 1..Len(A.send_list) }
         = UNION { A.remote_cols[d] : d \in Devs(queues) }
    /\ \A d \in Devs(queues) : \A c \in A.remote_cols[d] : ~InRange(d, c)

CidxOk ==
    /\ Len(A.cidx) = queues + 1
    /\ At(A.cidx, 0) = 0
    /\ At(A.cidx, queues) = Len(A.send_list)
    /\ \A d \in Devs(queues) : At(A.cidx, d) <= At(A.cidx, d + 1)
    /\ \A d \in Devs(queues) : \A i \in 0..(Len(A.send_list) - 1) :
         (At(A.cidx, d) <= i /\ i < At(A.cidx, d + 1))
           <=> InRange(d, At(A.send_list, i))

\* C20 as claimed: after construction on several devices the send list is
\* the strictly increasing union of the ghost sets, no ghost set holds a
\* column of its device's range, and cidx has D+1 boundaries from 0 to the
\* length of the send list that cut it by the devices' column ranges.
C20_AsClaimed ==
    (pc = "idle" /\ queues > 1) => SendListOk /\ CidxOk

\* C20: the same, with the boundaries cidx required only when the send list
\* is not empty; when it is empty cidx is empty.
C20_SendListAndCidx ==
    (pc = "idle" /\ queues > 1) =>
        /\ SendListOk
        /\ IF A.send_list = <<>> THEN A.cidx = <<>> ELSE CidxOk

\* Each of two devices sends one column.
C20_Witness ==
    /\ pc = "idle" /\ queues = 2
    /\ Len(A.send_list) = 2
    /\ A.cidx = <<0, 1, 2>>
    /\ At(xpart, 1) = At(A.send_list, 1)

\* Row r of device d's remote block applied to the ghost buffer exc[d].rx.
RemSum(d, r) ==
    LET e == BlockRow(A.mtx[d].rem, A.mtx[d].has_rem, r)
    IN  SumSeq([ k \in 1..Len(e) |-> e[k][2] * At(exc_rx[d], e[k][1]) ])

\* C21: when the remote kernel of a call starts on device d the zero fill of
\* that call has run, and the kernel adds alpha times the remote block's
\* product to y(d); a device without remote block never has a remote kernel
\* queued; and once a call with append = false has run to completion, y(d) of
\* a device with an empty local and a non-empty remote block is alpha times
\* the product of its rows, whatever y(d) held before.
C21_ZeroThenRemote ==
    [][ /\ \A d \in Devs(queues) :
             /\ RemoteStarts(d) =>
                  /\ <<Head(queue[d]).id[1], "zero", d>> \notin PendingIds
                  /\ \A r \in 0..(A.mtx[d].n - 1) :
                       At(y', At(A.part, d) + r)
                         = At(y, At(A.part, d) + r)
                           + Head(queue[d]).alpha * RemSum(d, r)
             /\ (pc # "new" /\ ~(A.has_mtx[d] /\ A.mtx[d].has_rem)) =>
                  \A k \in 1..Len(queue'[d]) : queue'[d][k].kind # "remote"
        /\ (Quiescent' /\ ~cur'.append) =>
             \A d \in Devs(queues) :
               (A.has_mtx[d] /\ ~A.mtx[d].has_loc /\ A.mtx[d].has_rem) =>
                 YPart(y', A.part, d)
                   = Slice(Scaled(cur'.alpha, DenseProduct(cur'.x)),
                           At(A.part, d), At(A.part, d + 1)) ]_vars

\* A call with append = false has run to completion on a device that holds
\* remote entries only, after a call that left other values in y(d).
C21_Witness ==
    /\ Quiescent /\ calls = 2 /\ ~cur.append /\ cur.x # prev.x
    /\ \E d \in Devs(queues) :
         /\ A.has_mtx[d] /\ ~A.mtx[d].has_loc /\ A.mtx[d].has_rem
         /\ YPart(y, A.part, d) # YPart(yAtIssue, A.part, d)
         /\ YPart(y, A.part, d) # Zeros(A.mtx[d].n)

ReadRuns(d) ==
    /\ Len(squeue[d]) > 0
    /\ Head(squeue[d]).kind = "read"
    /\ squeue'[d] = Tail(squeue[d])

\* The devices whose read-back covers slot i of rx (i from 0).
WritersOf(i) ==
    { d \in Devs(queues) : Sends(A, d) /\ At(A.cidx, d) <= i /\ i < At(A.cidx, d + 1) }

\* C22: a read-back of device d changes rx only within [cidx[d], cidx[d+1]),
\* and only a read-back changes rx; every slot of rx lies in the range of
\* exactly one sending device, and a call enqueues exactly one read-back for
\* each sending device; no read-back is pending when the host redistributes.
C22_DisjointTransfers ==
    [][ /\ \A i \in 0..(Len(rx) - 1) :
             At(rx', i) # At(rx, i) =>
               \E d \in Devs(queues) : ReadRuns(d) /\ d \in WritersOf(i)
        /\ pc # "new" =>
             \A i \in 0..(A.rxsize - 1) : Cardinality(WritersOf(i)) = 1
        /\ calls' # calls =>
             \A d \in Devs(queues) :
               squeue'[d] = squeue[d]
                 \o (IF Sends(A, d)
                     THEN <<Cmd(calls', "read", d, {<<calls', "gather", d>>}, cur')>>
                     ELSE <<>>)
        /\ (pc = "wait" /\ pc' = "idle") =>
             \A id \in PendingIds : id[2] # "read" ]_vars

\* The read-backs of two devices are ready to run at the same time.
C22_Witness ==
    /\ queues = 2 /\ calls = 2 /\ pc = "wait"
    /\ \A d \in Devs(queues) :
         Runnable(squeue[d]) /\ Head(squeue[d]).id = <<2, "read", d>>
    /\ A.cidx = <<0, 1, 2>>

\* C23: when the host starts to wait, the local command of the call is
\* queued on every device; no queued local command has a wait list; the host
\* is never held up while idle, and while waiting it is held up exactly as
\* long as a read-back of the call from a sending device is pending.
C23_LocalBeforeWait ==
    [][ /\ (pc = "idle" /\ pc' = "wait") =>
             \A d \in Devs(queues) :
               LET local == mul_local(A, d, calls', cur')
                   len == Len(queue'[d])
               IN  /\ len >= Len(queue[d]) + Len(local)
                   /\ SubSeq(queue'[d], len - Len(local) + 1, len) = local
        /\ \A d \in Devs(queues) : \A k \in 1..Len(queue'[d]) :
             queue'[d][k].kind \in LocalKinds => queue'[d][k].wait = {}
        /\ (pc = "idle" /\ calls < MaxCalls) => ENABLED MulIssue
        /\ pc = "wait" =>
             (ENABLED MulFinish <=>
                \A d \in Devs(queues) :
                  Sends(A, d) => <<calls, "read", d>> \notin PendingIds) ]_vars

\* The host waits for a read-back while the local product of a sending device
\* has already run.
C23_Witness ==
    /\ pc = "wait" /\ calls = 2
    /\ \E d \in Devs(queues) :
         /\ Sends(A, d) /\ A.has_mtx[d] /\ A.mtx[d].has_loc
         /\ \A kind \in LocalKinds : <<calls, kind, d>> \notin PendingIds
         /\ <<calls, "read", d>> \in PendingIds

\* Every in-order queue eventually runs a first command whose wait list is
\* complete, and a host whose wait is over goes on.
Fairness ==
    /\ \A d \in Devs(MaxDev) :
         /\ WF_vars(d \in Devs(queues) /\ ExecQueue(d))
         /\ WF_vars(d \in Devs(queues) /\ ExecSQueue(d))
    /\ WF_vars(MulFinish)

\* The steps of callers that pass alpha = 1 and the first vector: the values
\* of alpha and x decide no branch of mul and no wait list.
NextFair ==
    \/ Construct
    \/ MulIssue /\ cur'.alpha = 1 /\ cur'.x = 1
    \/ MulFinish
    \/ \E d \in Devs(queues) : ExecQueue(d)
    \/ \E d \in Devs(queues) : ExecSQueue(d)

SpecFair == Init /\ [][NextFair]_vars /\ Fairness

\* C24: a waiting host waits only for read-backs enqueued by the call in
\* progress, and eventually the host is out of its wait for good with no
\* command left in any queue.
C24_CallsTerminate ==
    /\ [](pc = "wait" =>
            \A d \in Devs(queues) :
              Sends(A, d) => event2[d] = <<calls, "read", d>>)
    /\ <>[](pc # "wait" /\ Idle)

\* Two calls with gather, read-back, upload and remote kernel on both devices
\* have run to completion.
C24_Witness ==
    /\ Quiescent /\ calls = 2 /\ queues = 2
    /\ \A d \in Devs(queues) : Sends(A, d) /\ Recvs(A, d) /\ A.mtx[d].has_rem
    /\ cur.append

\* C25: a device with an empty send range has no cols_to_send and no
\* vals_to_send buffer, never has a gather kernel or a read-back queued, and
\* its events do not hold up the host; a device with an empty ghost set has
\* no cols_to_recv, vals_to_recv and rx, and never has an upload or a remote
\* kernel queued.
C25_EmptyRangesSkipped ==
    pc # "new" =>
      /\ \A d \in Devs(queues) :
           /\ ~Sends(A, d) =>
                /\ A.cols_to_send[d] = <<>> /\ vals_to_send[d] = <<>>
                /\ event1[d] = NullEvent
                /\ \A id \in PendingIds :
                     id[3] = d => id[2] \notin {"gather", "read"}
           /\ A.remote_cols[d] = {} =>
                /\ A.cols_to_recv[d] = <<>> /\ vals_to_recv[d] = <<>>
                /\ exc_rx[d] = <<>>
                /\ \A id \in PendingIds :
                     id[3] = d => id[2] \notin {"write", "remote"}
      /\ (pc = "wait" /\ \A d \in Devs(queues) :
                           Sends(A, d) => <<calls, "read", d>> \notin PendingIds)
           => ENABLED MulFinish

\* Device 0 only sends and device 1 only receives; the host can go on in the
\* second call while the first call's upload to device 1 is pending.
C25_Witness ==
    /\ pc = "wait" /\ calls = 2 /\ queues = 2
    /\ Sends(A, 0) /\ ~Recvs(A, 0) /\ ~Sends(A, 1) /\ Recvs(A, 1)
    /\ event2[1] = <<1, "write", 1>>
    /\ <<1, "write", 1>> \in PendingIds
    /\ <<2, "read", 0>> \notin PendingIds

\* C27: a device with a non-empty cols_to_recv owns at least one row, so its
\* store was constructed, and that store has a remote block; every remote
\* kernel queued is on such a device.
C27_RemoteStoreExists ==
    pc # "new" =>
      \A d \in Devs(queues) :
        /\ Recvs(A, d) =>
             /\ At(A.part, d) < At(A.part, d + 1)
             /\ A.has_mtx[d]
             /\ A.mtx[d].has_rem
             /\ Len(A.mtx[d].rem.row) = A.mtx[d].n + 1
        /\ \A k \in 1..Len(queue[d]) :
             queue[d][k].kind = "remote" => A.has_mtx[d] /\ A.mtx[d].has_rem

\* The second of two devices receives ghost values and has run its remote
\* kernel while the first owns no row.
C27_Witness ==
    /\ Quiescent /\ queues = 2
    /\ ~A.has_mtx[0]
    /\ Recvs(A, 1)
    /\ <<"rx", 1>> \notin uninit

(* ------------------------------ C26 ----------------------------------- *)
\* Matrices of two rows, two columns and MaxNnz entries, on queues that share
\* a context or not, with the caches of one context holding entries for some
\* of the kernels (built for matrices used earlier) or none.
InitCache ==
    /\ InitWith(FALSE)
    /\ csr.n = 2 /\ csr.m = 2 /\ Len(csr.col) = MaxNnz
    /\ context \in { f \in [Devs(queues) -> Devs(queues)] : f[0] = 0 }
    /\ \E W \in SUBSET KernelKinds, wc \in { context[d] : d \in Devs(queues) } :
         cache = [ EmptyCache EXCEPT
                     !.entries = [ kind \in KernelKinds |->
                                     IF kind \in W THEN (wc :> 0) ELSE <<>> ] ]

SpecCache == InitCache /\ [][NextFair]_vars

\* C26: over any sequence of multiply calls, a kernel is built only when its
\* cache has no entry for the context, a build adds one entry and at most one
\* build is made per kernel and context; an entry of the cache is never
\* replaced, and every launch made in a context used the entry of that
\* context.
C26_CompiledOncePerContext ==
    [][ \A kind \in KernelKinds, c \in Devs(MaxDev) :
          /\ cache'.compiles[kind][c] # cache.compiles[kind][c] =>
               /\ c \notin DOMAIN cache.entries[kind]
               /\ c \in DOMAIN cache'.entries[kind]
               /\ cache'.compiles[kind][c] = cache.compiles[kind][c] + 1
          /\ c \in DOMAIN cache.entries[kind] =>
               /\ c \in DOMAIN cache'.entries[kind]
               /\ cache'.entries[kind][c] = cache.entries[kind][c]
          /\ cache'.compiles[kind][c] <= 1
          /\ \A l \in cache'.launched :
               l[1] = kind /\ l[2] = c =>
                 /\ c \in DOMAIN cache'.entries[kind]
                 /\ l[3] = cache'.entries[kind][c]
      ]_vars

\* Two calls on two sending devices of one context: the gather kernel was
\* built once and launched, and the remote products used an spmv_add entry
\* that was in the cache from the start.
C26_Witness ==
    /\ Quiescent /\ queues = 2 /\ calls = MaxCalls
    /\ context[1] = context[0]
    /\ Sends(A, 0) /\ Sends(A, 1)
    /\ cache.compiles["gather_vals_to_send"][0] = 1
    /\ <<"gather_vals_to_send", 0, 1>> \in cache.launched
    /\ cache.compiles["spmv_add"][0] = 0
    /\ <<"spmv_add", 0, 0>> \in cache.launched

====
